---------------------------- MODULE Spec2Model ----------------------------
(***************************************************************************)
(* State-machine model of src/src/prefect/backend/flow_run.py:             *)
(*   execute_flow_run            the orchestrator (lines 19-85)            *)
(*   fail_flow_run_on_exception  the execution guard (lines 88-118)        *)
(*   FlowRun                     the run object and its task-run cache     *)
(*                                                                         *)
(* Text is modelled as a sequence of tokens.  A token is either one of the *)
(* two characters str.format gives a meaning to, "{" and "}", or a run of  *)
(* text that holds neither.                                                *)
(*                                                                         *)
(* Every call to a collaborator (remote store, secrets provider, storage   *)
(* loader, engine) is one atomic step; the local computation that follows  *)
(* it up to the next such call belongs to the same step.                   *)
(*                                                                         *)
(* Three specifications share the variables:                               *)
(*   Spec       one call of execute_flow_run, with the remote store's      *)
(*              other writers                                              *)
(*   SpecCache  the callers of one FlowRun's get, iter_mapped, get_all and *)
(*              task_run_ids over a small flow run                         *)
(*   SpecLarge  get_all and task_run_ids over a flow run of about 1000     *)
(*              task runs                                                  *)
(***************************************************************************)
EXTENDS Integers, Sequences, FiniteSets

(***************************************************************************)
(* Bounds of the model.                                                    *)
(***************************************************************************)
\* longest list of secret names a storage declares
MaxSecrets == 2

(***************************************************************************)
(* prefect.engine.state: the run states and their predicates.              *)
(***************************************************************************)
RunStates == {"Scheduled", "Running", "Success", "Failed", "Cancelled"}

is_running(s) == s = "Running"

is_finished(s) == s \in {"Success", "Failed", "Cancelled"}

(***************************************************************************)
(* Secret names, exceptions and their repr().                              *)
(***************************************************************************)
\* names the ambient context and the caller give secrets under
ContextNames == {<<"a">>, <<"b">>}

\* names a storage can declare; the last one holds the characters { and }
SecretNames == ContextNames \cup {<<"{", "a", "}">>}

\* the lists a storage declares: up to MaxSecrets names, none twice
StorageSecretLists ==
    UNION {{l \in [1..n -> SecretNames] : \A j, k \in 1..n : l[j] = l[k] => j = k} :
           n \in 0..MaxSecrets}

\* flow_run.flow_storage: absent (falsy), or a storage declaring secrets
NoStorage == [present |-> FALSE, secrets |-> <<>>]

Storages == {NoStorage} \cup {[present |-> TRUE, secrets |-> l] : l \in StorageSecretLists}

\* what a unit of work can raise: an Exception or the interrupt
UnitErrors == {"UnitError"}

Interrupt == "KeyboardInterrupt"

Raisable == UnitErrors \cup {Interrupt}

\* exc.__repr__(): the text of an error may itself hold a brace
ExcRepr(exc) ==
    IF exc = "UnitError" THEN <<"UnitError('", "{", "')">>
    ELSE <<exc, "()">>

\* repr() of a str without quotes or backslashes: the text between quotes
StrRepr(name) == <<"'">> \o name \o <<"'">>

(***************************************************************************)
(* str.format(exc=...), line 104.  "{{" and "}}" are escapes, "{name}" is  *)
(* a replacement field (its end found by counting nested braces), a single *)
(* "}" or an unclosed "{" is a ValueError, a field that is not "exc" a     *)
(* KeyError or IndexError.  The substituted text is not parsed again.      *)
(***************************************************************************)
FormatFail == [ok |-> FALSE, text |-> <<>>]

FormatCons(head, rest) ==
    IF rest.ok THEN [ok |-> TRUE, text |-> head \o rest.text] ELSE FormatFail

RECURSIVE FieldEnd(_, _, _)
FieldEnd(t, k, depth) ==
    IF k > Len(t) THEN 0
    ELSE IF t[k] = "{" THEN FieldEnd(t, k + 1, depth + 1)
    ELSE IF t[k] = "}" THEN (IF depth = 1 THEN k ELSE FieldEnd(t, k + 1, depth - 1))
    ELSE FieldEnd(t, k + 1, depth)

RECURSIVE FormatFrom(_, _, _)
FormatFrom(t, i, exc) ==
    IF i > Len(t) THEN [ok |-> TRUE, text |-> <<>>]
    ELSE IF t[i] = "{" THEN
        IF i < Len(t) /\ t[i + 1] = "{"
        THEN FormatCons(<<"{">>, FormatFrom(t, i + 2, exc))
        ELSE LET j == FieldEnd(t, i + 1, 1) IN
             IF j = 0 THEN FormatFail
             ELSE IF SubSeq(t, i + 1, j - 1) = <<"exc">>
                  THEN FormatCons(exc, FormatFrom(t, j + 1, exc))
                  ELSE FormatFail
    ELSE IF t[i] = "}" THEN
        IF i < Len(t) /\ t[i + 1] = "}"
        THEN FormatCons(<<"}">>, FormatFrom(t, i + 2, exc))
        ELSE FormatFail
    ELSE FormatCons(<<t[i]>>, FormatFrom(t, i + 1, exc))

Format(template, exc) == FormatFrom(template, 1, exc)

(***************************************************************************)
(* The message templates of the three guarded stages (lines 42, 52, 73).   *)
(* The first is an f-string: the secret's repr is pasted into the template *)
(* and "{{exc}}" becomes "{exc}".                                          *)
(***************************************************************************)
SecretTemplate(name) ==
    <<"Failed to load flow secret ">> \o StrRepr(name) \o <<": ", "{", "exc", "}">>

LoadTemplate == <<"Failed to load flow from storage: ", "{", "exc", "}">>

ExecTemplate == <<"Failed to execute flow: ", "{", "exc", "}">>

(***************************************************************************)
(* The state.                                                              *)
(***************************************************************************)
VARIABLES
    remote,          \* the run's row in the remote store: state, message, flow storage, run config
    remoteTaskRuns,  \* the remote store's task runs of the run, by task run id
    args,            \* the call's arguments and ambient context: flow given?, prefect.context secrets
    pc,              \* where execute_flow_run stands: the collaborator call it makes next
    flow_run,        \* the FlowRun loaded at line 29
    secrets,         \* the local `secrets` mapping (line 36, filled at line 44)
    i,               \* position of the secrets loop in flow_storage.secrets (line 39)
    flow,            \* the local `flow`: "none", "given" or "loaded"
    run_kwargs,      \* the local `run_kwargs` (lines 57-64): caller's secrets and merged secrets
    flow_state,      \* the local `flow_state` (line 76): "unbound" until the engine returns
    guard,           \* the fail_flow_run_on_exception whose handler runs, and what it saw and did
    events,          \* every collaborator call this process made, in order
    raised,          \* the error execute_flow_run ended with, or "none"
    returned,        \* the FlowRun execute_flow_run returned, or NoFlowRun
    lookup,          \* the last call of get, get_all or task_run_ids on flow_run, and its outcome
    mapped           \* the generator that the last call of iter_mapped on flow_run made

vars == <<remote, remoteTaskRuns, args, pc, flow_run, secrets, i, flow, run_kwargs,
          flow_state, guard, events, raised, returned, lookup, mapped>>

(***************************************************************************)
(* Task runs and the FlowRun object (lines 121-167).                       *)
(***************************************************************************)
TaskRunIds == {"t1", "t2"}

\* the remote task runs at the start: a mapped task's base record and one child
InitialTaskRuns ==
    [id \in TaskRunIds |->
        [task_run_id |-> id, task_slug |-> "x",
         map_index |-> IF id = "t1" THEN -1 ELSE 0, state |-> "Pending"]]

\* self._task_run_ids = None, line 143
NoTaskRunIds == [cached |-> FALSE, ids |-> {}]

NoFlowRun ==
    [loaded |-> FALSE, state |-> "none", flow_storage |-> NoStorage,
     flow_run_config |-> FALSE, task_run_ids |-> NoTaskRunIds, task_runs |-> <<>>,
     task_slug_to_task_run_ids |-> <<>>]

\* an add that stores the record and leaves the slug index as it is
add_task_run_unindexed(run, task_run) ==
    [run EXCEPT
       !.task_runs = [k \in DOMAIN run.task_runs \cup {task_run.task_run_id} |->
                         IF k = task_run.task_run_id THEN task_run
                         ELSE run.task_runs[k]]]

\* a cache that holds the last record added and nothing else
add_task_run_alone(run, task_run) ==
    [run EXCEPT
       !.task_runs = [k \in {task_run.task_run_id} |-> task_run],
       !.task_slug_to_task_run_ids =
           [s \in {task_run.task_slug} |-> {task_run.task_run_id}]]

\* FlowRun._add_task_run, lines 155-157
add_task_run(run, task_run) ==
    LET id == task_run.task_run_id
        slug == task_run.task_slug
        old == run.task_slug_to_task_run_ids
        ids == IF slug \in DOMAIN old THEN old[slug] ELSE {}
    IN [run EXCEPT
          !.task_runs = [k \in DOMAIN run.task_runs \cup {id} |->
                            IF k = id THEN task_run ELSE run.task_runs[k]],
          !.task_slug_to_task_run_ids =
              [s \in DOMAIN old \cup {slug} |->
                  IF s = slug THEN ids \cup {id} ELSE old[s]]]

RECURSIVE add_task_runs(_, _)
add_task_runs(run, task_runs) ==
    IF task_runs = <<>> THEN run
    ELSE add_task_runs(add_task_run(run, Head(task_runs)), Tail(task_runs))

\* FlowRun.__init__, lines 122-153
FlowRunInit(state, flow_storage, flow_run_config, task_runs) ==
    add_task_runs(
        [loaded |-> TRUE, state |-> state, flow_storage |-> flow_storage,
         flow_run_config |-> flow_run_config, task_run_ids |-> NoTaskRunIds,
         task_runs |-> <<>>, task_slug_to_task_run_ids |-> <<>>],
        task_runs)

\* the records of a collection as a list; no id occurs twice, so the order of the
\* list decides nothing
RECURSIVE ListOf(_, _)
ListOf(records, ids) ==
    IF ids = {} THEN <<>>
    ELSE LET id == CHOOSE x \in ids : TRUE
         IN <<records[id]>> \o ListOf(records, ids \ {id})

\* TaskRun.query_for_task_runs(where map_index = -1), lines 218-225
StaticTaskRuns ==
    ListOf(remoteTaskRuns,
           {id \in DOMAIN remoteTaskRuns : remoteTaskRuns[id].map_index = -1})

\* FlowRun.from_flow_run_id on a good result, lines 217-245: the run's row and, when
\* asked, the static task runs are read from the remote store as it is now
from_flow_run_id(load_static_tasks, task_runs) ==
    FlowRunInit(remote.state, remote.flow_storage, remote.flow_run_config,
                (IF load_static_tasks THEN StaticTaskRuns ELSE <<>>) \o task_runs)

\* self._task_runs.values(), line 166
TaskRunValues(run) == ListOf(run.task_runs, DOMAIN run.task_runs)

(***************************************************************************)
(* Secrets mappings: a mapping is a function from the names it holds.      *)
(***************************************************************************)
\* a value as prefect.context holds it, as PrefectSecret(name).run() returns it
\* (line 44), as the caller passes it in kwargs["context"]["secrets"]
ContextValue == "from context"

ProviderValue == "from provider"

CallerValue == "from caller"

SecretsOf(names, value) == [k \in names |-> value]

\* secrets[secret] = ..., line 44
SetSecret(mapping, name, value) ==
    [k \in DOMAIN mapping \cup {name} |-> IF k = name THEN value ELSE mapping[k]]

\* the merge with its two operands exchanged: {**provided, **secrets}
MergeSecretsLoadedWins(loaded, provided) ==
    [k \in DOMAIN loaded \cup DOMAIN provided |->
        IF k \in DOMAIN loaded THEN loaded[k] ELSE provided[k]]

\* {**secrets, **run_kwargs["context"].get("secrets", {})}, lines 59-64
MergeSecrets(loaded, provided) ==
    [k \in DOMAIN loaded \cup DOMAIN provided |->
        IF k \in DOMAIN provided THEN provided[k] ELSE loaded[k]]

NoKwargs == [built |-> FALSE, provided |-> <<>>, secrets |-> <<>>]

(***************************************************************************)
(* Events: the calls made to collaborators, as the process makes them.     *)
(***************************************************************************)
Event(op, state, text) == [op |-> op, state |-> state, text |-> text]

Ops(op) == SelectSeq(events, LAMBDA e : e.op = op)

StateWrites == Ops("set_flow_run_state")

LogWrites == Ops("write_run_logs")

(***************************************************************************)
(* The guard, fail_flow_run_on_exception (lines 88-118).                   *)
(***************************************************************************)
\* stage, template, exc: the guard and the error its unit of work raised;
\* seen: the remote state when the handler read the run again; decided_on: the state
\* the handler decided on; state, message: what it is about to write;
\* overwrote: the remote state its write replaced; interfered: another writer wrote
\* between the handler's read and its write
NoGuard ==
    [stage |-> "none", template |-> <<>>, exc |-> "none", seen |-> "none",
     decided_on |-> "none", state |-> "none", message |-> <<>>, overwrote |-> "none",
     interfered |-> FALSE]

\* a handler deciding on the FlowRun that execute_flow_run loaded at its start
GuardObservedStateCached == flow_run.state

\* the state the handler decides on: that of a FlowRun read now (lines 96, 103)
GuardObservedState == from_flow_run_id(TRUE, <<>>).state

\* a handler that writes whatever it read
GuardWritesAlways(state) == TRUE

\* a handler that writes unless the run is finished
GuardWritesUnlessFinished(state) == ~is_finished(state)

\* the handler's condition for writing (lines 96, 103)
GuardWrites(state) == is_running(state)

\* a handler that ends without `raise`: the with block is left normally
GuardSwallows(exc) == [pc |-> "resume", raised |-> "none"]

\* `raise` at the end of either handler (lines 101, 118): the error goes on to the
\* caller of execute_flow_run, which ends there
GuardExit(exc) == [pc |-> "done", raised |-> exc]

\* a precondition that lets every run through
AlreadyExecutingNever(run) == FALSE

\* the precondition of execute_flow_run, line 32
AlreadyExecuting(run) == is_running(run.state)

\* an execution that loads the flow from the storage whether or not it was given one
AfterSecretsAlwaysLoads(run, j) ==
    IF run.flow_storage.present /\ j <= Len(run.flow_storage.secrets) THEN "secret"
    ELSE "load"

\* the stage that follows the secrets loop (lines 39, 47)
AfterSecrets(run, j) ==
    IF run.flow_storage.present /\ j <= Len(run.flow_storage.secrets) THEN "secret"
    ELSE IF flow = "none" THEN "load"
    ELSE "merge"

\* the template of the guard around the call made at pc (lines 42, 52, 73)
TemplateAt(position) ==
    IF position = "secret" THEN SecretTemplate(flow_run.flow_storage.secrets[i])
    ELSE IF position = "load" THEN LoadTemplate
    ELSE ExecTemplate

StageAt(position) ==
    IF position \in {"secret", "load"} THEN position ELSE "exec"

(***************************************************************************)
(* The task runs of one flow run in the remote store, and the lookups of   *)
(* TaskRun that FlowRun calls (lines 289, 317, 350, 360, 384).  A mapped   *)
(* task "x" has a base record at map index -1 and children at indices from *)
(* 0; a plain task "y" has its base record only.                           *)
(***************************************************************************)
\* highest map index at which the mapped task has a child
MaxMapIndex == 2

MapIndexes == 0 .. MaxMapIndex

Slugs == {"x", "y"}

BaseIds == [x |-> "tx", y |-> "ty"]

ChildIds == <<"tx0", "tx1", "tx2", "tx3">>

\* the id of the task run of a slug at a map index
RemoteId(slug, map_index) ==
    IF map_index = -1 THEN BaseIds[slug] ELSE ChildIds[map_index + 1]

TaskRun(id, slug, map_index, state) ==
    [task_run_id |-> id, task_slug |-> slug, map_index |-> map_index, state |-> state]

\* a store holding both base records and the children of "x" at the given indices:
\* the children have run, "y" has not yet
RemoteStore(children, base_state) ==
    [id \in {BaseIds.x, BaseIds.y} \cup {RemoteId("x", n) : n \in children} |->
        IF id = BaseIds.x THEN TaskRun(id, "x", -1, base_state)
        ELSE IF id = BaseIds.y THEN TaskRun(id, "y", -1, "Pending")
        ELSE LET n == CHOOSE n \in children : RemoteId("x", n) = id
             IN TaskRun(id, "x", n, "Success")]

NoTaskRun == TaskRun("None", "None", -1, "none")

Found(task_run) == [ok |-> TRUE, task_run |-> task_run]

NotFound == [ok |-> FALSE, task_run |-> NoTaskRun]

\* TaskRun.from_task_run_id(task_run_id), line 289
from_task_run_id(task_run_id) ==
    IF task_run_id \in DOMAIN remoteTaskRuns
    THEN Found(remoteTaskRuns[task_run_id])
    ELSE NotFound

\* TaskRun.query_for_task_runs(where slug, flow run and map index), lines 344-351, 360
query_for_task_runs(task_slug, map_index) ==
    LET ids == {id \in DOMAIN remoteTaskRuns :
                   /\ remoteTaskRuns[id].task_slug = task_slug
                   /\ remoteTaskRuns[id].map_index = map_index}
    IN IF ids = {} THEN NotFound
       ELSE Found(remoteTaskRuns[CHOOSE id \in ids : TRUE])

\* TaskRun.from_task_slug(task_slug, flow_run_id), line 317: the base record
from_task_slug(task_slug) == query_for_task_runs(task_slug, -1)

\* the remote calls, as lookup.calls and mapped.calls record them
CallById(task_run_id) == [call |-> "from_task_run_id", task_run_id |-> task_run_id]

CallBySlug(task_slug) == [call |-> "from_task_slug", task_slug |-> task_slug]

CallByIndex(task_slug, map_index) ==
    [call |-> "query_for_task_runs", task_slug |-> task_slug, map_index |-> map_index]

CallMany == [call |-> "query_for_task_runs", many |-> TRUE]

CallIds == [call |-> "graphql", query |-> "task_run ids"]

(***************************************************************************)
(* FlowRun.get, lines 247-325.  Each operation gives the FlowRun as it     *)
(* leaves it, whether it returned or raised, what it returned and the      *)
(* remote calls it made.                                                   *)
(***************************************************************************)
NoTask == [given |-> FALSE, slug |-> "None"]

Task(slug) == [given |-> TRUE, slug |-> slug]

\* Python's `not value` for a slug: None and the empty string
Falsy(value) == value \in {"None", ""}

Returned(run, result, calls) ==
    [run |-> run, outcome |-> "returned", error |-> "none", result |-> result,
     calls |-> calls]

Raised(run, error, calls) ==
    [run |-> run, outcome |-> "raised", error |-> error, result |-> <<>>,
     calls |-> calls]

\* a lookup by id that never finds the id in the cache
CachedByIdNever(run, task_run_id) == FALSE

\* `task_run_id in self._task_runs`, line 288
CachedById(run, task_run_id) == task_run_id \in DOMAIN run.task_runs

\* lines 284-301: by id, from the cache or else from the remote store
get_by_id(run, task_slug, task_run_id) ==
    LET cached == CachedById(run, task_run_id)
        fetched == from_task_run_id(task_run_id)
        calls == IF cached THEN <<>> ELSE <<CallById(task_run_id)>>
    IN IF ~cached /\ ~fetched.ok THEN Raised(run, "NotFound", calls)
       ELSE LET result == IF cached THEN run.task_runs[task_run_id]
                          ELSE fetched.task_run
            IN IF task_slug # "None" /\ result.task_slug # task_slug
               THEN Raised(run, "ValueError", calls)
               ELSE Returned(add_task_run(run, result), <<result>>, calls)

\* a cache that answers for a slug as soon as it holds one id of it
SeveralCachedOneIsEnough(task_run_ids) == Cardinality(task_run_ids) > 0

\* `len(task_run_ids) > 1`, line 307
SeveralCached(task_run_ids) == Cardinality(task_run_ids) > 1

\* self._task_slug_to_task_run_ids[task_slug] where the slug is a key, lines 305-306
CachedIdsOfSlug(run, task_slug) ==
    IF task_slug \in DOMAIN run.task_slug_to_task_run_ids
    THEN run.task_slug_to_task_run_ids[task_slug]
    ELSE {}

\* lines 303-321: by slug, the cached base record of a mapped task or else the remote
\* store's record
get_by_slug(run, task_slug) ==
    LET task_run_ids == CachedIdsOfSlug(run, task_slug)
        bases == {id \in task_run_ids : run.task_runs[id].map_index = -1}
        fetched == from_task_slug(task_slug)
    IN IF SeveralCached(task_run_ids) /\ bases # {}
       THEN Returned(run, <<run.task_runs[CHOOSE id \in bases : TRUE]>>, <<>>)
       ELSE IF ~fetched.ok THEN Raised(run, "NotFound", <<CallBySlug(task_slug)>>)
       ELSE Returned(add_task_run(run, fetched.task_run), <<fetched.task_run>>,
                     <<CallBySlug(task_slug)>>)

\* FlowRun.get, lines 247-325
get(run, task, task_slug, task_run_id) ==
    IF task.given /\ Falsy(task.slug) /\ Falsy(task_slug)
    THEN Raised(run, "ValueError", <<>>)
    ELSE IF task.given /\ task_slug # "None" /\ task_slug # task.slug
    THEN Raised(run, "ValueError", <<>>)
    ELSE LET slug == IF task.given /\ Falsy(task_slug) THEN task.slug ELSE task_slug
         IN IF task_run_id # "None" THEN get_by_id(run, slug, task_run_id)
            ELSE IF slug # "None" THEN get_by_slug(run, slug)
            ELSE Raised(run, "ValueError", <<>>)

(***************************************************************************)
(* FlowRun.task_run_ids and FlowRun.get_all, lines 376-434.  The list of   *)
(* ids and the list of fetched records hold no id twice and their order    *)
(* decides nothing, so each is kept as a set.                              *)
(***************************************************************************)
\* the most task runs get_all fetches, line 377
GetAllLimit == 1000

\* `if self._task_run_ids:`, line 400: a list that is set and not empty
HasTaskRunIds(run) == run.task_run_ids.cached /\ run.task_run_ids.ids # {}

\* lines 397-434; answered: the query's result holds the task runs (line 420), and
\* when it does not, line 428 iterates over None
task_run_ids(run, answered) ==
    IF HasTaskRunIds(run) THEN Returned(run, run.task_run_ids.ids, <<>>)
    ELSE IF ~answered THEN Raised(run, "TypeError", <<CallIds>>)
    ELSE LET ids == DOMAIN remoteTaskRuns
         IN Returned(IF is_finished(run.state)
                     THEN [run EXCEPT !.task_run_ids = [cached |-> TRUE, ids |-> ids]]
                     ELSE run,
                     ids, <<CallIds>>)

\* a get_all that refuses one id earlier
OverLimitFromLimit(ids) == Cardinality(ids) >= GetAllLimit

\* `len(self.task_run_ids) > 1000`, line 377
OverLimit(ids) == Cardinality(ids) > GetAllLimit

\* lines 392-393: every record is added as _add_task_run adds it
add_fetched(run, task_runs) ==
    LET ids == {t.task_run_id : t \in task_runs}
        slugs == {t.task_slug : t \in task_runs}
        old == run.task_slug_to_task_run_ids
    IN [run EXCEPT
          !.task_runs = [k \in DOMAIN run.task_runs \cup ids |->
                            IF k \in ids
                            THEN CHOOSE t \in task_runs : t.task_run_id = k
                            ELSE run.task_runs[k]],
          !.task_slug_to_task_run_ids =
              [s \in DOMAIN old \cup slugs |->
                  (IF s \in DOMAIN old THEN old[s] ELSE {})
                  \cup {t.task_run_id : t \in {u \in task_runs : u.task_slug = s}}]]

\* lines 384-395: the one query for every task run of the flow run, cached and returned
get_all_fetch(run, calls) ==
    LET task_runs == {remoteTaskRuns[id] : id \in DOMAIN remoteTaskRuns}
    IN Returned(add_fetched(run, task_runs), task_runs, Append(calls, CallMany))

(***************************************************************************)
(* FlowRun.iter_mapped, lines 327-374: a generator.  Its body up to the    *)
(* check of the base record runs when the caller asks for the first item.  *)
(***************************************************************************)
NoMapped ==
    [status |-> "none", task_slug |-> "None", cache_results |-> FALSE, map_index |-> 0,
     yielded |-> <<>>, calls |-> <<>>, error |-> "none", before |-> NoFlowRun]

\* a reader that takes any base record for a mapped one
IsMappedAlways(task_run) == TRUE

\* task_run.state.is_mapped(), line 352
IsMapped(task_run) == task_run.state = "Mapped"

\* lines 333-358: the arguments are checked, the base record fetched and checked
iter_mapped(run, task, task_slug, cache_results) ==
    LET slug == IF task.given THEN task.slug ELSE task_slug
        base == query_for_task_runs(slug, -1)
        new == [NoMapped EXCEPT !.task_slug = slug, !.cache_results = cache_results,
                                !.before = run]
        failed(error, calls) ==
            [new EXCEPT !.status = "raised", !.error = error, !.calls = calls]
    IN IF task.given /\ task_slug # "None" /\ task_slug # task.slug
       THEN failed("ValueError", <<>>)
       ELSE IF slug = "None" THEN failed("ValueError", <<>>)
       ELSE IF ~base.ok THEN failed("NotFound", <<CallByIndex(slug, -1)>>)
       ELSE IF ~IsMapped(base.task_run)
       THEN failed("TypeError", <<CallByIndex(slug, -1)>>)
       ELSE [new EXCEPT !.status = "running", !.calls = <<CallByIndex(slug, -1)>>]

\* no call of get, get_all or task_run_ids yet
NoLookup ==
    [op |-> "none", task |-> NoTask, task_slug |-> "None", task_run_id |-> "None",
     phase |-> "done", outcome |-> "none", error |-> "none", result |-> <<>>,
     calls |-> <<>>, counted |-> {}, before |-> NoFlowRun]

(***************************************************************************)
(* The initial state: a call of execute_flow_run that has not started, for *)
(* every run row, every flow argument and every ambient secrets mapping.   *)
(***************************************************************************)
Init ==
    /\ remote \in [state : RunStates, message : {<<>>}, flow_storage : Storages,
                   flow_run_config : BOOLEAN]
    /\ remoteTaskRuns = InitialTaskRuns
    /\ args \in [flow_given : BOOLEAN,
                 context_secrets : {SecretsOf(n, ContextValue) : n \in SUBSET ContextNames}]
    /\ pc = "start"
    /\ flow_run = NoFlowRun
    /\ secrets = <<>>
    /\ i = 1
    /\ flow = IF args.flow_given THEN "given" ELSE "none"
    /\ run_kwargs = NoKwargs
    /\ flow_state = "unbound"
    /\ guard = NoGuard
    /\ events = <<>>
    /\ raised = "none"
    /\ returned = NoFlowRun
    /\ lookup = NoLookup
    /\ mapped = NoMapped

(***************************************************************************)
(* execute_flow_run, lines 19-85.                                          *)
(***************************************************************************)
\* lines 29-36: load the FlowRun, refuse a running one, seed the secrets
Start ==
    /\ pc = "start"
    /\ \E good \in BOOLEAN :
        IF ~good
        THEN \* lines 211-215: a bad result raises ValueError
             /\ events' = Append(events, Event("flow_run_by_pk", "bad result", <<>>))
             /\ raised' = "ValueError"
             /\ pc' = "done"
             /\ UNCHANGED <<flow_run, secrets>>
        ELSE LET run == from_flow_run_id(TRUE, <<>>) IN
             /\ events' = Append(events, Event("flow_run_by_pk", remote.state, <<>>))
             /\ flow_run' = run
             /\ IF AlreadyExecuting(run)
                THEN /\ raised' = "AlreadyRunning"
                     /\ pc' = "done"
                     /\ UNCHANGED secrets
                ELSE /\ secrets' = args.context_secrets
                     /\ pc' = AfterSecrets(run, 1)
                     /\ UNCHANGED raised
    /\ UNCHANGED <<lookup, mapped, remote, remoteTaskRuns, args, i, flow, run_kwargs, flow_state,
                   guard, returned>>

\* line 44: the secret is resolved and stored
ResolveSecret ==
    /\ pc = "secret"
    /\ LET name == flow_run.flow_storage.secrets[i] IN
        /\ secrets' = SetSecret(secrets, name, ProviderValue)
        /\ events' = Append(events, Event("PrefectSecret.run", "ok", name))
    /\ i' = i + 1
    /\ pc' = AfterSecrets(flow_run, i + 1)
    /\ UNCHANGED <<lookup, mapped, remote, remoteTaskRuns, args, flow_run, flow, run_kwargs,
                   flow_state, guard, raised, returned>>

\* line 54: the flow is loaded from the storage
LoadFlow ==
    /\ pc = "load"
    /\ flow_run.flow_storage.present
    /\ flow' = "loaded"
    /\ events' = Append(events, Event("get_flow", "ok", <<>>))
    /\ pc' = "merge"
    /\ UNCHANGED <<lookup, mapped, remote, remoteTaskRuns, args, flow_run, secrets, i, run_kwargs,
                   flow_state, guard, raised, returned>>

\* lines 57-66: the caller's options are copied and the secrets merged into them;
\* `flow.executor` needs a flow
MergeContext ==
    /\ pc = "merge"
    /\ IF flow = "none"
       THEN /\ raised' = "AttributeError"
            /\ pc' = "done"
            /\ UNCHANGED run_kwargs
       ELSE /\ \E names \in SUBSET ContextNames :
                LET provided == SecretsOf(names, CallerValue) IN
                run_kwargs' = [built |-> TRUE, provided |-> provided,
                               secrets |-> MergeSecrets(secrets, provided)]
            /\ pc' = "exec"
            /\ UNCHANGED raised
    /\ UNCHANGED <<lookup, mapped, remote, remoteTaskRuns, args, flow_run, secrets, i, flow,
                   flow_state, guard, events, returned>>

\* line 76: the engine runs the flow with run_kwargs and returns its final state
RunEngine ==
    /\ pc = "exec"
    /\ flow_run.flow_run_config
    /\ \E final \in {"Success", "Failed"} : flow_state' = final
    /\ events' = Append(events, Event("FlowRunner.run", "ok", <<>>))
    /\ pc' = "finish"
    /\ UNCHANGED <<lookup, mapped, remote, remoteTaskRuns, args, flow_run, secrets, i, flow,
                   run_kwargs, guard, raised, returned>>

\* line 81: the legacy environment is set up
EnvironmentSetup ==
    /\ pc = "exec"
    /\ ~flow_run.flow_run_config
    /\ events' = Append(events, Event("environment.setup", "ok", <<>>))
    /\ pc' = "env_execute"
    /\ UNCHANGED <<lookup, mapped, remote, remoteTaskRuns, args, flow_run, secrets, i, flow,
                   run_kwargs, flow_state, guard, raised, returned>>

\* line 82: the legacy environment executes the flow
EnvironmentExecute ==
    /\ pc = "env_execute"
    /\ events' = Append(events, Event("environment.execute", "ok", <<>>))
    /\ pc' = "finish"
    /\ UNCHANGED <<lookup, mapped, remote, remoteTaskRuns, args, flow_run, secrets, i, flow,
                   run_kwargs, flow_state, guard, raised, returned>>

\* the call made at each guarded position, as the events name it
CallAt(position) ==
    IF position = "secret" THEN "PrefectSecret.run"
    ELSE IF position = "load" THEN "get_flow"
    ELSE IF position = "env_execute" THEN "environment.execute"
    ELSE IF flow_run.flow_run_config THEN "FlowRunner.run"
    ELSE "environment.setup"

\* what the call made at a guarded position can raise: an error of its own or the
\* interrupt; with no storage, line 54 is an attribute access on nothing
RaisedAt(position) ==
    IF position = "load" /\ ~flow_run.flow_storage.present
    THEN {"AttributeError", Interrupt}
    ELSE Raisable

\* lines 40-44, 50-54, 71-82: the guarded unit of work raises; the handler of its
\* guard starts (lines 95, 102)
UnitRaises ==
    /\ pc \in {"secret", "load", "exec", "env_execute"}
    /\ \E exc \in RaisedAt(pc) :
        guard' = [NoGuard EXCEPT !.stage = StageAt(pc), !.template = TemplateAt(pc),
                                 !.exc = exc]
    /\ events' = Append(events, Event(CallAt(pc), "raised",
                                      IF pc = "secret"
                                      THEN flow_run.flow_storage.secrets[i] ELSE <<>>))
    /\ pc' = "h_read"
    /\ UNCHANGED <<lookup, mapped, remote, remoteTaskRuns, args, flow_run, secrets, i, flow,
                   run_kwargs, flow_state, raised, returned>>

\* FlowRun.update, lines 159-167
update(run) == from_flow_run_id(FALSE, TaskRunValues(run))

\* lines 84-85: the final state is logged and the refreshed FlowRun returned
Finish ==
    /\ pc = "finish"
    /\ IF flow_state = "unbound"
       THEN \* line 84 reads flow_state, which only line 76 binds
            /\ raised' = "UnboundLocalError"
            /\ UNCHANGED <<events, returned>>
       ELSE \E good \in BOOLEAN :
            IF ~good
            THEN /\ events' = Append(events, Event("flow_run_by_pk", "bad result", <<>>))
                 /\ raised' = "ValueError"
                 /\ UNCHANGED returned
            ELSE /\ events' = Append(events, Event("flow_run_by_pk", remote.state, <<>>))
                 /\ returned' = update(flow_run)
                 /\ UNCHANGED raised
    /\ pc' = "done"
    /\ UNCHANGED <<lookup, mapped, remote, remoteTaskRuns, args, flow_run, secrets, i, flow,
                   run_kwargs, flow_state, guard>>

(***************************************************************************)
(* The handlers of fail_flow_run_on_exception, lines 95-118.               *)
(***************************************************************************)
\* where execute_flow_run goes on after the with block of a stage, were its guard
\* to end without raising
AfterStage(stage) ==
    IF stage = "secret" THEN AfterSecrets(flow_run, i + 1)
    ELSE IF stage = "load" THEN "merge"
    ELSE "finish"

\* the handler ends (lines 101, 118)
GuardLeaves ==
    LET exit == GuardExit(guard.exc) IN
    /\ raised' = exit.raised
    /\ pc' = IF exit.pc = "done" THEN "done" ELSE AfterStage(guard.stage)
    /\ i' = IF exit.pc # "done" /\ guard.stage = "secret" THEN i + 1 ELSE i

\* lines 96 and 103-104: the run is read again; a running one is to be written, and
\* for an Exception the message is formatted first
GuardReread ==
    /\ pc = "h_read"
    /\ \E good \in BOOLEAN :
        IF ~good
        THEN \* lines 211-215: a bad result raises ValueError inside the handler
             /\ events' = Append(events, Event("flow_run_by_pk", "bad result", <<>>))
             /\ guard' = [guard EXCEPT !.seen = "bad result"]
             /\ raised' = "ValueError"
             /\ pc' = "done"
             /\ UNCHANGED i
        ELSE LET observed == GuardObservedState
                 message == Format(guard.template, ExcRepr(guard.exc))
                 seen == [guard EXCEPT !.seen = remote.state, !.decided_on = observed]
             IN
             /\ events' = Append(events, Event("flow_run_by_pk", remote.state, <<>>))
             /\ IF ~GuardWrites(observed)
                THEN /\ guard' = seen
                     /\ GuardLeaves
                ELSE IF guard.exc = Interrupt
                THEN /\ guard' = [seen EXCEPT !.state = "Cancelled",
                                              !.message = <<"Keyboard interrupt.">>]
                     /\ pc' = "h_state"
                     /\ UNCHANGED <<raised, i>>
                ELSE IF message.ok
                THEN /\ guard' = [seen EXCEPT !.state = "Failed",
                                              !.message = message.text]
                     /\ pc' = "h_state"
                     /\ UNCHANGED <<raised, i>>
                ELSE \* line 104: str.format raises KeyError, IndexError or ValueError
                     /\ guard' = seen
                     /\ raised' = "FormatError"
                     /\ pc' = "done"
                     /\ UNCHANGED i
    /\ UNCHANGED <<lookup, mapped, remote, remoteTaskRuns, args, flow_run, secrets, flow, run_kwargs,
                   flow_state, returned>>

\* lines 97-101 and 105-107: client.set_flow_run_state
GuardSetState ==
    /\ pc = "h_state"
    /\ remote' = [remote EXCEPT !.state = guard.state, !.message = guard.message]
    /\ guard' = [guard EXCEPT !.overwrote = remote.state]
    /\ events' = Append(events, Event("set_flow_run_state", guard.state, guard.message))
    /\ IF guard.exc = Interrupt
       THEN GuardLeaves
       ELSE /\ pc' = "h_log"
            /\ UNCHANGED <<raised, i>>
    /\ UNCHANGED <<lookup, mapped, remoteTaskRuns, args, flow_run, secrets, flow, run_kwargs,
                   flow_state, returned>>

\* lines 108-118: client.write_run_logs, then raise
GuardWriteLog ==
    /\ pc = "h_log"
    /\ events' = Append(events, Event("write_run_logs", "ERROR", guard.message))
    /\ GuardLeaves
    /\ UNCHANGED <<lookup, mapped, remote, remoteTaskRuns, args, flow_run, secrets, flow, run_kwargs,
                   flow_state, guard, returned>>

(***************************************************************************)
(* The remote store's other writers: the engine while it runs the flow,    *)
(* another process executing or guarding the same run.  They move a run    *)
(* that is not finished to any other state and leave a finished one alone, *)
(* and while the run is running they take task runs from Pending to        *)
(* Success.                                                                *)
(***************************************************************************)
RemoteStateChange ==
    /\ pc # "done"
    /\ ~is_finished(remote.state)
    /\ \E s \in RunStates \ {remote.state} :
        remote' = [remote EXCEPT !.state = s, !.message = <<>>]
    /\ guard' = IF pc = "h_state" THEN [guard EXCEPT !.interfered = TRUE] ELSE guard
    /\ UNCHANGED <<lookup, mapped, remoteTaskRuns, args, pc, flow_run, secrets, i, flow, run_kwargs,
                   flow_state, events, raised, returned>>

RemoteTaskProgress ==
    /\ pc # "done"
    /\ is_running(remote.state)
    /\ \E id \in DOMAIN remoteTaskRuns :
        /\ remoteTaskRuns[id].state = "Pending"
        /\ remoteTaskRuns' = [remoteTaskRuns EXCEPT ![id].state = "Success"]
    /\ UNCHANGED <<lookup, mapped, remote, args, pc, flow_run, secrets, i, flow, run_kwargs,
                   flow_state, guard, events, raised, returned>>

Next ==
    \/ Start
    \/ ResolveSecret
    \/ LoadFlow
    \/ MergeContext
    \/ RunEngine
    \/ EnvironmentSetup
    \/ EnvironmentExecute
    \/ UnitRaises
    \/ Finish
    \/ GuardReread
    \/ GuardSetState
    \/ GuardWriteLog
    \/ RemoteStateChange
    \/ RemoteTaskProgress

Spec == Init /\ [][Next]_vars

(***************************************************************************)
(* The callers of one FlowRun: any sequence of get, iter_mapped with the   *)
(* items of its generator taken one at a time, get_all and task_run_ids,   *)
(* while the engine takes the task runs of a running flow run from Pending *)
(* to Success.  A caller that holds a generator takes its items until it   *)
(* ends before calling anything else, and the generator is dropped at the  *)
(* next call.                                                              *)
(***************************************************************************)
TaskArgs == {NoTask, Task("x"), Task("None")}

SlugArgs == {"None"} \cup Slugs

\* the arguments of get: nothing; a task with and without a slug, alone and with a
\* slug that differs; a slug; an id that exists or not, alone and with either slug
GetArgs ==
    {<<NoTask, "None", "None">>, <<Task("x"), "None", "None">>,
     <<Task("None"), "None", "None">>, <<Task("x"), "y", "None">>,
     <<Task("None"), "y", "None">>}
    \cup {<<NoTask, slug, "None">> : slug \in Slugs}
    \cup {<<NoTask, "None", id>> :
             id \in {"unknown", BaseIds.x, BaseIds.y, RemoteId("x", 0), RemoteId("x", 1)}}
    \cup {<<NoTask, slug, RemoteId("x", 0)>> : slug \in Slugs}

orchestrator == <<remote, args, pc, secrets, i, flow, run_kwargs, flow_state, guard,
                  events, raised, returned>>

\* what a call of get, get_all or task_run_ids leaves in lookup; counted: the ids
\* whose number get_all compared with its limit
Call(op, task, task_slug, task_run_id, phase, r) ==
    [op |-> op, task |-> task, task_slug |-> task_slug, task_run_id |-> task_run_id,
     phase |-> phase, outcome |-> r.outcome, error |-> r.error, result |-> r.result,
     calls |-> r.calls, counted |-> {}, before |-> flow_run]

\* flow_run.get(task, task_slug, task_run_id)
Get ==
    /\ lookup.phase = "done"
    /\ mapped.status # "running"
    /\ \E a \in GetArgs :
        LET r == get(flow_run, a[1], a[2], a[3]) IN
        /\ flow_run' = r.run
        /\ lookup' = Call("get", a[1], a[2], a[3], "done", r)
    /\ mapped' = NoMapped
    /\ UNCHANGED <<remoteTaskRuns, orchestrator>>

\* flow_run.task_run_ids
ReadTaskRunIds ==
    /\ lookup.phase = "done"
    /\ mapped.status # "running"
    /\ \E answered \in BOOLEAN :
        LET r == task_run_ids(flow_run, answered) IN
        /\ flow_run' = r.run
        /\ lookup' = Call("task_run_ids", NoTask, "None", "None", "done", r)
    /\ mapped' = NoMapped
    /\ UNCHANGED <<remoteTaskRuns, orchestrator>>

\* flow_run.get_all(), line 377: the ids are read and counted
GetAllCheck ==
    /\ lookup.phase = "done"
    /\ mapped.status # "running"
    /\ \E answered \in BOOLEAN :
        LET r == task_run_ids(flow_run, answered) IN
        /\ flow_run' = r.run
        /\ lookup' =
             IF r.outcome = "raised"
             THEN Call("get_all", NoTask, "None", "None", "done", r)
             ELSE IF OverLimit(r.result)
             THEN [Call("get_all", NoTask, "None", "None", "done",
                        Raised(r.run, "ValueError", r.calls))
                      EXCEPT !.counted = r.result]
             ELSE [Call("get_all", NoTask, "None", "None", "fetch",
                        [r EXCEPT !.outcome = "none", !.result = <<>>])
                      EXCEPT !.counted = r.result]
    /\ mapped' = NoMapped
    /\ UNCHANGED <<remoteTaskRuns, orchestrator>>

\* flow_run.get_all(), lines 384-395: the bulk query
GetAllFetch ==
    /\ lookup.phase = "fetch"
    /\ LET r == get_all_fetch(flow_run, lookup.calls) IN
        /\ flow_run' = r.run
        /\ lookup' = [lookup EXCEPT !.phase = "done", !.outcome = r.outcome,
                                    !.result = r.result, !.calls = r.calls]
    /\ UNCHANGED <<mapped, remoteTaskRuns, orchestrator>>

\* flow_run.iter_mapped(task, task_slug, cache_results) and the first next() up to
\* line 358
IterMapped ==
    /\ lookup.phase = "done"
    /\ mapped.status # "running"
    /\ \E task \in TaskArgs, task_slug \in SlugArgs, cache_results \in BOOLEAN :
        mapped' = iter_mapped(flow_run, task, task_slug, cache_results)
    /\ lookup' = NoLookup
    /\ UNCHANGED <<flow_run, remoteTaskRuns, orchestrator>>

\* a reader that goes on two indices further
NextMapIndexSkipsOne(map_index) == map_index + 2

\* map_index += 1, line 374
NextMapIndex(map_index) == map_index + 1

\* lines 359-374: the generator asks for the record at map_index and yields it, or ends
IterNext ==
    /\ lookup.phase = "done"
    /\ mapped.status = "running"
    /\ LET found == query_for_task_runs(mapped.task_slug, mapped.map_index)
           calls == Append(mapped.calls, CallByIndex(mapped.task_slug, mapped.map_index))
       IN IF ~found.ok
          THEN /\ mapped' = [mapped EXCEPT !.status = "exhausted", !.calls = calls]
               /\ UNCHANGED flow_run
          ELSE /\ mapped' = [mapped EXCEPT !.yielded = Append(@, found.task_run),
                                           !.map_index = NextMapIndex(@),
                                           !.calls = calls]
               /\ flow_run' = IF mapped.cache_results
                              THEN add_task_run(flow_run, found.task_run)
                              ELSE flow_run
    /\ lookup' = NoLookup
    /\ UNCHANGED <<remoteTaskRuns, orchestrator>>

\* the task runs of the flow run in the remote store when the FlowRun is made
Stores ==
    {RemoteStore(children, base_state) :
        children \in SUBSET MapIndexes, base_state \in {"Mapped", "Success"}}
    \cup {<<>>}

CacheInit ==
    /\ remote \in [state : {"Running", "Success"}, message : {<<>>},
                   flow_storage : {NoStorage}, flow_run_config : {TRUE}]
    /\ remoteTaskRuns \in Stores
    /\ \E load_static_tasks \in BOOLEAN :
        flow_run = from_flow_run_id(load_static_tasks, <<>>)
    /\ args = [flow_given |-> TRUE, context_secrets |-> <<>>]
    /\ pc = "start"
    /\ secrets = <<>>
    /\ i = 1
    /\ flow = "given"
    /\ run_kwargs = NoKwargs
    /\ flow_state = "unbound"
    /\ guard = NoGuard
    /\ events = <<>>
    /\ raised = "none"
    /\ returned = NoFlowRun
    /\ lookup = NoLookup
    /\ mapped = NoMapped

CacheNext ==
    \/ Get
    \/ ReadTaskRunIds
    \/ GetAllCheck
    \/ GetAllFetch
    \/ IterMapped
    \/ IterNext
    \/ RemoteTaskProgress

SpecCache == CacheInit /\ [][CacheNext]_vars

(***************************************************************************)
(* The callers of the FlowRun of a large flow run: a mapped task "x" whose *)
(* base record and children number one less than the limit of get_all, the *)
(* limit or one more, and whose children are still being created while the *)
(* flow run is running.  Task run ids are numbers here.                    *)
(***************************************************************************)
LargeStore(n) ==
    [id \in 1 .. n |->
        TaskRun(id, "x", id - 2, IF id = 1 THEN "Mapped" ELSE "Success")]

\* the engine creates the next child of the mapped task
RemoteTaskRunCreated ==
    /\ is_running(remote.state)
    /\ Cardinality(DOMAIN remoteTaskRuns) <= GetAllLimit
    /\ remoteTaskRuns' = LargeStore(Cardinality(DOMAIN remoteTaskRuns) + 1)
    /\ UNCHANGED <<flow_run, lookup, mapped, orchestrator>>

LargeInit ==
    /\ remote \in [state : {"Running", "Success"}, message : {<<>>},
                   flow_storage : {NoStorage}, flow_run_config : {TRUE}]
    /\ remoteTaskRuns \in {LargeStore(n) : n \in GetAllLimit - 2 .. GetAllLimit + 1}
    /\ \E load_static_tasks \in BOOLEAN :
        flow_run = from_flow_run_id(load_static_tasks, <<>>)
    /\ args = [flow_given |-> TRUE, context_secrets |-> <<>>]
    /\ pc = "start"
    /\ secrets = <<>>
    /\ i = 1
    /\ flow = "given"
    /\ run_kwargs = NoKwargs
    /\ flow_state = "unbound"
    /\ guard = NoGuard
    /\ events = <<>>
    /\ raised = "none"
    /\ returned = NoFlowRun
    /\ lookup = NoLookup
    /\ mapped = NoMapped

LargeNext ==
    \/ ReadTaskRunIds
    \/ GetAllCheck
    \/ GetAllFetch
    \/ RemoteTaskRunCreated

SpecLarge == LargeInit /\ [][LargeNext]_vars

(***************************************************************************)
(* Properties of the guard and of execute_flow_run.                        *)
(*                                                                         *)
(* At pc = "done" the remote store is as it was when execute_flow_run      *)
(* ended: the other writers act only while it runs.                        *)
(***************************************************************************)
\* the handler of a guard has ended
HandlerEnded == pc = "done" /\ guard.stage # "none"

\* the errors a handler treats in `except Exception`
NotInterrupt == {"UnitError", "AttributeError"}

\* the template with the error's text in the place of its {exc} field, every
\* other part of the template kept as it is
Substituted(template, exc) == SubSeq(template, 1, Len(template) - 3) \o ExcRepr(exc)

\* C1: whenever a guarded unit of work ends with an error or an interrupt, the
\* run's remote state is terminal when the guard propagates the error.
C1_TerminalWhenGuardPropagates ==
    (HandlerEnded /\ raised = guard.exc) => is_finished(remote.state)

\* C2, as claimed: the remote state is never terminal at the moment the guard's
\* state write is applied, whatever another writer does meanwhile.
C2_NeverOverwritesTerminal == ~is_finished(guard.overwrote)

\* C2, amended: the guard applies a state write only when its own fresh read of the
\* run returned a running state, and the state it replaces is not terminal unless
\* another writer wrote between that read and the write.
C2_WritesOnlyAfterReadingRunning ==
    guard.overwrote # "none" =>
        /\ is_running(guard.seen)
        /\ ~guard.interfered => ~is_finished(guard.overwrote)

\* C2 witness: the guard wrote over a running state that nobody else had touched
\* since the guard read it.
C2_Witness ==
    /\ guard.overwrote = "Running"
    /\ ~guard.interfered
    /\ Len(StateWrites) = 1

\* C3: when the unit of work raises an error that is not the interrupt and the run
\* read again is running, the guard makes exactly one state write, Failed with the
\* error substituted into the stage's template, then exactly one log write at
\* ERROR with the same message, and then raises the original error.
C3_FailedThenLogThenReraise ==
    (HandlerEnded /\ guard.exc \in NotInterrupt /\ is_running(guard.seen)) =>
        LET message == Substituted(guard.template, guard.exc) IN
        /\ Len(events) >= 2
        /\ SubSeq(events, Len(events) - 1, Len(events)) =
              <<Event("set_flow_run_state", "Failed", message),
                Event("write_run_logs", "ERROR", message)>>
        /\ Len(StateWrites) = 1
        /\ Len(LogWrites) = 1
        /\ raised = guard.exc

\* C4: when the unit of work raises and the run read again is not running, the
\* guard makes no state write and no log write, leaves the remote state as it read
\* it, and raises the original error.
C4_NotRunningNoWrites ==
    (guard.seen \in RunStates /\ ~is_running(guard.seen)) =>
        /\ pc = "done"
        /\ StateWrites = <<>>
        /\ LogWrites = <<>>
        /\ remote.state = guard.seen
        /\ remote.message = <<>>
        /\ raised = guard.exc

\* C4 witness: a handler that found the run already terminal has ended.
C4_Witness ==
    /\ HandlerEnded
    /\ guard.seen = "Success"
    /\ guard.exc = "UnitError"

\* C5: on an interrupt the guard decides on the remote state as read again at that
\* moment: a running one gets exactly one state write, Cancelled, and no log
\* write; any other gets nothing; either way the interrupt is raised again.
C5_InterruptDecidesOnReread ==
    (HandlerEnded /\ guard.exc = Interrupt /\ guard.seen \in RunStates) =>
        /\ raised = Interrupt
        /\ LogWrites = <<>>
        /\ StateWrites =
              IF is_running(guard.seen)
              THEN <<Event("set_flow_run_state", "Cancelled", <<"Keyboard interrupt.">>)>>
              ELSE <<>>

\* C5 witness: an interrupted run that was not running when execute_flow_run loaded
\* it, was running when the handler read it again, and was cancelled.
C5_Witness ==
    /\ HandlerEnded
    /\ guard.exc = Interrupt
    /\ ~is_running(flow_run.state)
    /\ is_running(guard.seen)
    /\ remote.state = "Cancelled"

\* C6: whenever the unit of work raises an error, the guard ends by raising that
\* same error, whatever becomes of its own read, state write and log write.
C6_ReraisesTheSameError == HandlerEnded => raised = guard.exc

\* C7: in one execution of execute_flow_run at most one state write and at most
\* one log write are made, and nothing but that log write follows the state write:
\* no later stage, no later guard.
C7_AtMostOneTerminalWrite ==
    /\ Len(StateWrites) <= 1
    /\ Len(LogWrites) <= 1
    /\ \A j, k \in 1..Len(events) :
          (events[j].op = "set_flow_run_state" /\ j < k) =>
              events[k].op = "write_run_logs"

\* C7 witness: an execution ended with one state write and one log write made.
C7_Witness ==
    /\ pc = "done"
    /\ Len(StateWrites) = 1
    /\ Len(LogWrites) = 1

\* C8: if the run as loaded at the start is running, the call fails at once with
\* AlreadyRunning and does nothing else: no secret resolved, no flow loaded, no
\* engine, no state write, no log write.
C8_AlreadyRunningNoEffect ==
    (flow_run.loaded /\ is_running(flow_run.state)) =>
        /\ pc = "done"
        /\ raised = "AlreadyRunning"
        /\ events = <<Event("flow_run_by_pk", "Running", <<>>)>>
        /\ secrets = <<>>
        /\ flow = (IF args.flow_given THEN "given" ELSE "none")
        /\ run_kwargs = NoKwargs
        /\ flow_state = "unbound"
        /\ guard = NoGuard
        /\ remote.state = "Running"
        /\ remote.message = <<>>
        /\ returned = NoFlowRun

\* C8 witness: a call refused with AlreadyRunning.
C8_Witness ==
    /\ flow_run.loaded
    /\ is_running(flow_run.state)
    /\ raised = "AlreadyRunning"

\* every stage of execute_flow_run has completed without error
StagesCompleted ==
    /\ pc = "done"
    /\ events # <<>>
    /\ \E k \in 1..Len(events) :
          /\ events[k].op \in {"FlowRunner.run", "environment.execute"}
          /\ events[k].state = "ok"

\* C9: when every stage completes without error, the call returns a refreshed
\* FlowRun, its state read again from the remote store and its cache that of the
\* FlowRun loaded before the execution; on the engine branch and on the legacy one.
\* (A refresh that gets a bad result from the remote store is set aside.)
C9_ReturnsRefreshedRun ==
    (StagesCompleted /\ raised # "ValueError") =>
        /\ raised = "none"
        /\ returned.loaded
        /\ returned.state = remote.state
        /\ returned.task_runs = flow_run.task_runs

\* the names whose secrets the storage had resolved
StorageNames ==
    IF flow_run.flow_storage.present
    THEN {flow_run.flow_storage.secrets[k] : k \in 1..Len(flow_run.flow_storage.secrets)}
    ELSE {}

\* the engine was handed run_kwargs
EngineInvoked == \E k \in 1..Len(events) : events[k].op = "FlowRunner.run"

\* C10: the secrets of the context handed to the engine are the union of the
\* ambient secrets, the secrets resolved for the storage and the caller's
\* secrets, the caller's value winning wherever the caller gives one.
C10_CallerSecretsWin ==
    EngineInvoked =>
        LET ambient == args.context_secrets
            provided == run_kwargs.provided
            merged == run_kwargs.secrets
        IN
        /\ run_kwargs.built
        /\ DOMAIN merged = DOMAIN ambient \cup StorageNames \cup DOMAIN provided
        /\ \A k \in DOMAIN merged :
              IF k \in DOMAIN provided THEN merged[k] = provided[k]
              ELSE \/ k \in DOMAIN ambient /\ merged[k] = ambient[k]
                   \/ k \in StorageNames /\ merged[k] = ProviderValue

\* C10 witness: the engine was handed a context where the caller's secret replaced
\* one resolved for the storage and an ambient secret was kept.
C10_Witness ==
    /\ EngineInvoked
    /\ StorageNames \cap DOMAIN run_kwargs.provided # {}
    /\ DOMAIN args.context_secrets \ (DOMAIN run_kwargs.provided \cup StorageNames) # {}

(***************************************************************************)
(* What the code does do in the cases around the failures above.           *)
(***************************************************************************)
\* A run that the handler read as running is terminal when the handler has raised
\* the unit's error again.
RunningRunLeftTerminal ==
    (HandlerEnded /\ raised = guard.exc /\ is_running(guard.seen)) =>
        is_finished(remote.state)

\* With a template that str.format accepts, an Exception met with a running run
\* gets the Failed write, then the ERROR log with the same message, then is
\* raised again.
PlainTemplateFailedThenLog ==
    (HandlerEnded /\ guard.exc \in NotInterrupt /\ is_running(guard.seen)
        /\ Format(guard.template, ExcRepr(guard.exc)).ok
        /\ \A k \in 1..(Len(guard.template) - 3) : guard.template[k] \notin {"{", "}"}) =>
        LET message == Substituted(guard.template, guard.exc) IN
        /\ Len(events) >= 2
        /\ SubSeq(events, Len(events) - 1, Len(events)) =
              <<Event("set_flow_run_state", "Failed", message),
                Event("write_run_logs", "ERROR", message)>>
        /\ Len(StateWrites) = 1
        /\ Len(LogWrites) = 1
        /\ raised = guard.exc

\* The handler raises the unit's error again whenever its own read and its own
\* formatting went through.
ReraisesWhenOwnCallsSucceed ==
    (HandlerEnded /\ guard.seen \in RunStates /\ raised # "FormatError") =>
        raised = guard.exc

\* On the engine branch a completed execution returns the refreshed FlowRun.
EngineBranchReturnsRefreshedRun ==
    (StagesCompleted /\ flow_run.flow_run_config /\ raised # "ValueError") =>
        /\ raised = "none"
        /\ returned.loaded
        /\ returned.state = remote.state
        /\ returned.task_runs = flow_run.task_runs
        /\ returned.task_slug_to_task_run_ids = flow_run.task_slug_to_task_run_ids

(***************************************************************************)
(* Properties of the FlowRun's cache of task runs, checked under           *)
(* SpecCache.                                                              *)
(***************************************************************************)
\* the last call was a get by an id, with no task, that the FlowRun held in its cache
GetByCachedId ==
    /\ lookup.op = "get"
    /\ ~lookup.task.given
    /\ lookup.task_run_id # "None"
    /\ lookup.task_run_id \in DOMAIN lookup.before.task_runs

\* C11: a get by the id of a record that the cache holds makes no remote call and
\* returns the record the cache holds under that id, which stays there; it raises only
\* when a slug given with the id differs from the record's slug.
C11_CachedIdServedFromCache ==
    GetByCachedId =>
        LET cached == lookup.before.task_runs[lookup.task_run_id] IN
        /\ lookup.calls = <<>>
        /\ flow_run.task_runs[lookup.task_run_id] = cached
        /\ IF lookup.task_slug \in {"None", cached.task_slug}
           THEN lookup.outcome = "returned" /\ lookup.result = <<cached>>
           ELSE lookup.outcome = "raised" /\ lookup.error = "ValueError"

\* a get by a cached id returned the cached record although the remote store's record
\* has moved on since it was cached
C11_Witness ==
    /\ GetByCachedId
    /\ lookup.outcome = "returned"
    /\ lookup.task_run_id \in DOMAIN remoteTaskRuns
    /\ lookup.result[1] # remoteTaskRuns[lookup.task_run_id]

\* C12: no step of get, iter_mapped, get_all or task_run_ids replaces the record that
\* the cache holds under an id: the record under every cached id is the same after the
\* step as before it.
C12_CachedRecordNeverReplaced ==
    [][\A id \in DOMAIN flow_run.task_runs :
          /\ id \in DOMAIN flow_run'.task_runs
          /\ flow_run'.task_runs[id] = flow_run.task_runs[id]]_vars

\* C13: no step of get, iter_mapped, get_all or task_run_ids, returning or raising,
\* takes an id out of the cache: every id cached before the step is cached after it.
C13_CachedIdNeverEvicted ==
    [][DOMAIN flow_run.task_runs \subseteq DOMAIN flow_run'.task_runs]_vars

\* a get that fetched a record and then raised left a cache that held records as it was
C13_Witness ==
    /\ lookup.op = "get"
    /\ lookup.outcome = "raised"
    /\ lookup.calls # <<>>
    /\ DOMAIN lookup.before.task_runs # {}
    /\ DOMAIN flow_run.task_runs = DOMAIN lookup.before.task_runs

\* the slug that a get looks up: the one given, or else the task's (lines 281-282)
SlugOfLookup ==
    IF lookup.task.given /\ Falsy(lookup.task_slug) THEN lookup.task.slug
    ELSE lookup.task_slug

\* the last call was a get by a slug, given or taken from a task, and by no id, whose
\* arguments passed the checks of lines 264-277
GetBySlug ==
    /\ lookup.op = "get"
    /\ lookup.task_run_id = "None"
    /\ SlugOfLookup # "None"
    /\ ~(lookup.task.given /\ lookup.task_slug \notin {"None", lookup.task.slug})

\* the ids that the cache held for the slug before the get, and the base records
\* among them
IdsBeforeLookup == CachedIdsOfSlug(lookup.before, SlugOfLookup)

BasesBeforeLookup ==
    {id \in IdsBeforeLookup : lookup.before.task_runs[id].map_index = -1}

RemoteAt(task_slug, map_index) ==
    {id \in DOMAIN remoteTaskRuns :
        /\ remoteTaskRuns[id].task_slug = task_slug
        /\ remoteTaskRuns[id].map_index = map_index}

\* the first index from 0 at which the remote store holds no task run of the slug
FirstMissingIndex(task_slug) ==
    CHOOSE k \in 0 .. MaxMapIndex + 1 :
        /\ RemoteAt(task_slug, k) = {}
        /\ \A n \in 0 .. k - 1 : RemoteAt(task_slug, n) # {}

\* C15: the generator of iter_mapped for a slug whose base record is mapped has yielded,
\* in this order, the remote store's records of the slug at indices 0, 1, ... and none
\* at or beyond the first index k that has no record; when it has ended it has yielded
\* exactly the k records at indices 0 .. k-1.
C15_YieldsContiguousIndexes ==
    mapped.status \in {"running", "exhausted"} =>
        LET k == FirstMissingIndex(mapped.task_slug) IN
        /\ Len(mapped.yielded) <= k
        /\ \A j \in 1 .. Len(mapped.yielded) :
              /\ mapped.yielded[j].map_index = j - 1
              /\ mapped.yielded[j].task_slug = mapped.task_slug
              /\ mapped.yielded[j].task_run_id \in RemoteAt(mapped.task_slug, j - 1)
        /\ mapped.status = "exhausted" => Len(mapped.yielded) = k

\* a generator ended after the record at index 0 although the remote store holds a
\* record of the slug at a higher index, beyond a missing one
C15_Witness ==
    /\ mapped.status = "exhausted"
    /\ Len(mapped.yielded) = 1
    /\ \E n \in MapIndexes :
          /\ n > FirstMissingIndex(mapped.task_slug)
          /\ RemoteAt(mapped.task_slug, n) # {}

\* the generator fetched the base record of its slug, and the remote store's base
\* record of that slug is not in a mapped state
BaseFetchedNotMapped ==
    /\ mapped.calls # <<>>
    /\ RemoteAt(mapped.task_slug, -1) # {}
    /\ \A id \in RemoteAt(mapped.task_slug, -1) : remoteTaskRuns[id].state # "Mapped"

GetAllEnded ==
    /\ lookup.op = "get_all"
    /\ lookup.phase = "done"
    /\ lookup.error # "TypeError"

BulkQueries == SelectSeq(lookup.calls, LAMBDA c : c = CallMany)

\* C17: a get_all that counted more than 1000 ids raised ValueError, made no bulk query
\* and left the cached records and the slug index as they were; one that counted 1000
\* ids or fewer made exactly one bulk query and returned records that the cache holds.
C17_GetAllRefusesOverLimit ==
    GetAllEnded =>
        IF Cardinality(lookup.counted) > GetAllLimit
        THEN /\ lookup.outcome = "raised"
             /\ lookup.error = "ValueError"
             /\ BulkQueries = <<>>
             /\ flow_run.task_runs = lookup.before.task_runs
             /\ flow_run.task_slug_to_task_run_ids =
                    lookup.before.task_slug_to_task_run_ids
        ELSE /\ lookup.outcome = "returned"
             /\ Len(BulkQueries) = 1
             /\ \A t \in lookup.result :
                    /\ t.task_run_id \in DOMAIN flow_run.task_runs
                    /\ flow_run.task_runs[t.task_run_id] = t

\* a get_all that counted exactly 1000 ids returned them from its bulk query
C17_Witness ==
    /\ GetAllEnded
    /\ Cardinality(lookup.counted) = GetAllLimit
    /\ lookup.outcome = "returned"
    /\ Cardinality(lookup.result) >= GetAllLimit

(***************************************************************************)
(* The order of the stages of execute_flow_run, checked under Spec.        *)
(***************************************************************************)
EngineOps == {"FlowRunner.run", "environment.setup", "environment.execute"}

\* the place of a call among the stages: secret resolutions, flow load, engine
\* dispatch; 0 for the calls that belong to no stage
StageRank(op) ==
    IF op = "PrefectSecret.run" THEN 1
    ELSE IF op = "get_flow" THEN 2
    ELSE IF op \in EngineOps THEN 3
    ELSE 0

StageEvents == {k \in 1 .. Len(events) : StageRank(events[k].op) > 0}

\* C18: the calls of the stages follow the load of a FlowRun that is not running and
\* come in the order secret resolutions, flow load, engine dispatch; the flow is loaded
\* only for a caller that gave none, and the engine of such a caller runs only after
\* the load; after a stage call that raised no further stage call is made; and the
\* engine is dispatched at most once.
C18_StagesInOrder ==
    /\ \A k \in StageEvents :
          /\ events[1].op = "flow_run_by_pk"
          /\ events[1].state \notin {"bad result", "Running"}
          /\ \A j \in StageEvents : j < k =>
                /\ StageRank(events[j].op) <= StageRank(events[k].op)
                /\ events[j].state # "raised"
    /\ \A k \in StageEvents :
          /\ events[k].op = "get_flow" => ~args.flow_given
          /\ (events[k].op \in EngineOps /\ ~args.flow_given) =>
                \E j \in 1 .. k - 1 : events[j].op = "get_flow" /\ events[j].state = "ok"
    /\ Len(Ops("get_flow")) <= 1
    /\ Len(Ops("FlowRunner.run")) + Len(Ops("environment.setup")) <= 1
    /\ Len(Ops("environment.execute")) <= 1

\* the flow load raised after a secret was resolved, and the execution ended without
\* a call of the engine
C18_Witness ==
    /\ pc = "done"
    /\ \E j, k \in StageEvents :
          /\ j < k
          /\ events[j].op = "PrefectSecret.run" /\ events[j].state = "ok"
          /\ events[k].op = "get_flow" /\ events[k].state = "raised"
    /\ \A k \in StageEvents : events[k].op \notin EngineOps

(***************************************************************************)
(* Properties of the cached list of task run ids, checked under SpecCache. *)
(***************************************************************************)
ReadOfTaskRunIds == lookup.op = "task_run_ids"

\* C19: a read of task_run_ids on a finished FlowRun that has already stored the list
\* makes no remote query and returns the stored list, whatever the list, the empty one
\* included, and the list stays stored; a read on a FlowRun that is not finished makes
\* a remote query and stores nothing.
C19_IdListCachedOnceFinished ==
    ReadOfTaskRunIds =>
        IF is_finished(lookup.before.state)
        THEN lookup.before.task_run_ids.cached =>
                /\ lookup.calls = <<>>
                /\ lookup.outcome = "returned"
                /\ lookup.result = lookup.before.task_run_ids.ids
                /\ flow_run.task_run_ids = lookup.before.task_run_ids
        ELSE /\ lookup.calls = <<CallIds>>
             /\ ~flow_run.task_run_ids.cached

\* the same for the lists that hold an id, and for a FlowRun that is not finished
NonEmptyIdListReadOnce ==
    ReadOfTaskRunIds =>
        IF is_finished(lookup.before.state)
        THEN (lookup.before.task_run_ids.cached /\ lookup.before.task_run_ids.ids # {}) =>
                /\ lookup.calls = <<>>
                /\ lookup.outcome = "returned"
                /\ lookup.result = lookup.before.task_run_ids.ids
                /\ flow_run.task_run_ids = lookup.before.task_run_ids
        ELSE /\ lookup.calls = <<CallIds>>
             /\ ~flow_run.task_run_ids.cached

\* C20: the two maps of the FlowRun agree: every id of the id-to-record map is in the
\* slug index under the slug of its record, and every id of a slug index entry is a key
\* of the id-to-record map.  (A task run's slug is the same each time it is fetched:
\* the remote store never changes one.)
C20_IndexConsistent ==
    LET records == flow_run.task_runs
        index == flow_run.task_slug_to_task_run_ids
    IN /\ \A id \in DOMAIN records :
             /\ records[id].task_slug \in DOMAIN index
             /\ id \in index[records[id].task_slug]
       /\ \A slug \in DOMAIN index : index[slug] \subseteq DOMAIN records

\* a FlowRun that holds three records or more under both slugs, after a call that
\* fetched a record and raised
C20_Witness ==
    /\ Cardinality(DOMAIN flow_run.task_runs) >= 3
    /\ DOMAIN flow_run.task_slug_to_task_run_ids = Slugs
    /\ lookup.outcome = "raised"
    /\ lookup.calls # <<>>

=============================================================================
